---- MODULE Spec2Model ----
(***************************************************************************)
(* Model of wifi.py: the OUI manufacturer table, the three platform        *)
(* scanners, the bounded signal history and the refresh loop.              *)
(*                                                                         *)
(* Text is modelled as Python handles it: a str is a sequence of           *)
(* one-character strings, so split(), strip(), upper(), startswith() and   *)
(* int() are computed character by character.                              *)
(***************************************************************************)
EXTENDS Integers, Sequences, FiniteSets, TLC

\* ---------------------------------------------------------------- bounds
\* refresh cycles explored by Spec
MaxCycles == 3
\* refresh cycles explored by SpecHistory (more than MAX_HISTORY samples)
MaxHistoryCycles == 11

\* ------------------------------------------------------ program constants
MAX_HISTORY == 10
\* sys.get_int_max_str_digits() of the interpreter: int() refuses a text of
\* more decimal digits
INT_MAX_STR_DIGITS == 4300

\* Python None in a str-valued slot.  A str is a sequence of one-character
\* strings, so no text is this value.
NoneStr == <<"None">>

\* The SIGNAL slot of a record and of the Windows accumulator holds an int
\* object or None.  An int object carries its tag next to its value, so None
\* differs from the int of every text int() accepts.
int_object(n) == <<"int", n>>
int_value(object) == object[2]
NoneSig == <<"None">>

\* ------------------------------------------------------------ str methods
LowerCase == <<"a","b","c","d","e","f","g","h","i","j","k","l","m",
               "n","o","p","q","r","s","t","u","v","w","x","y","z">>
UpperCase == <<"A","B","C","D","E","F","G","H","I","J","K","L","M",
               "N","O","P","Q","R","S","T","U","V","W","X","Y","Z">>
Digits == <<"0","1","2","3","4","5","6","7","8","9">>

\* A character that cannot be written in a string of this language (a
\* character beyond ASCII) is named by its code point: Chr(12288) stands for
\* the ideographic space.  The text of the model is over ASCII, the
\* whitespace and the decimal digits of Unicode; of these only a-z have an
\* upper-case form.
Chr(n) == "U+" \o ToString(n)

\* str.isspace(): the characters strip() removes and split() separates on.
\* The ASCII ones are space, TAB, LF, CR, FF and, written raw, VT (0x0B) and
\* the separators FS, GS, RS, US (0x1C-0x1F).
AsciiSpaces == {" ", "\t", "\n", "\r", "\f", "", "", "", "", ""}
SpaceCodes == {133, 160, 5760} \cup (8192..8202) \cup {8232, 8233, 8239, 8287, 12288}
Spaces == AsciiSpaces \cup {Chr(n) : n \in SpaceCodes}

IsSpace(c) == c \in Spaces

UpperChar(c) ==
    IF \E i \in 1..26 : LowerCase[i] = c
    THEN UpperCase[CHOOSE i \in 1..26 : LowerCase[i] = c]
    ELSE c

\* str.upper()
Upper(s) == [i \in 1..Len(s) |-> UpperChar(s[i])]

RECURSIVE LStrip(_)
LStrip(s) == IF s # <<>> /\ IsSpace(Head(s)) THEN LStrip(Tail(s)) ELSE s

RECURSIVE RStrip(_)
RStrip(s) ==
    IF s # <<>> /\ IsSpace(s[Len(s)]) THEN RStrip(SubSeq(s, 1, Len(s) - 1)) ELSE s

\* str.strip()
Strip(s) == RStrip(LStrip(s))

\* str.startswith(p)
StartsWith(s, p) == Len(s) >= Len(p) /\ SubSeq(s, 1, Len(p)) = p

\* length of the leading run of non-whitespace characters
WordLen(s) ==
    LET spaces == { i \in 1..Len(s) : IsSpace(s[i]) } IN
    IF spaces = {} THEN Len(s)
    ELSE (CHOOSE i \in spaces : \A j \in spaces : i <= j) - 1

\* str.split() with no argument: runs of whitespace separate the fields
RECURSIVE Split(_)
Split(s) ==
    LET t == LStrip(s) IN
    IF t = <<>> THEN <<>>
    ELSE LET n == WordLen(t) IN
         <<SubSeq(t, 1, n)>> \o Split(SubSeq(t, n + 1, Len(t)))

\* position of the first occurrence of character c in s, 0 when absent
IndexOf(s, c) ==
    LET hits == { i \in 1..Len(s) : s[i] = c } IN
    IF hits = {} THEN 0 ELSE CHOOSE i \in hits : \A j \in hits : i <= j

\* str.split(sep) for a one-character separator
RECURSIVE SplitOn(_, _)
SplitOn(s, sep) ==
    LET i == IndexOf(s, sep) IN
    IF i = 0 THEN <<s>>
    ELSE <<SubSeq(s, 1, i - 1)>> \o SplitOn(SubSeq(s, i + 1, Len(s)), sep)

\* sep.join(parts) for a one-character separator
RECURSIVE Join(_, _)
Join(parts, sep) ==
    IF parts = <<>> THEN <<>>
    ELSE IF Len(parts) = 1 THEN parts[1]
    ELSE parts[1] \o <<sep>> \o Join(Tail(parts), sep)

\* str.replace(c, '')
Remove(s, c) == SelectSeq(s, LAMBDA x : x # c)

\* code points of the digit zero of every decimal digit script beyond ASCII;
\* the digits one to nine of a script follow its zero
DecimalZeros ==
    {1632, 1776, 1984, 2406, 2534, 2662, 2790, 2918, 3046, 3174, 3302,
     3430, 3558, 3664, 3792, 3872, 4160, 4240, 6112, 6160, 6470, 6608,
     6784, 6800, 6992, 7088, 7232, 7248, 42528, 43216, 43264, 43472, 43504,
     43600, 44016, 65296, 66720, 68912, 69734, 69872, 69942, 70096, 70384,
     70736, 70864, 71248, 71360, 71472, 71904, 72016, 72784, 73040, 73120,
     92768, 92864, 93008, 120782, 120792, 120802, 120812, 120822, 123200,
     123632, 125264, 130032}

\* the characters int() reads as the decimal digit d
DigitChars == [d \in 0..9 |-> {Digits[d + 1]} \cup {Chr(z + d) : z \in DecimalZeros}]

IsDigit(c) == \E d \in 0..9 : c \in DigitChars[d]

DigitVal(c) == CHOOSE d \in 0..9 : c \in DigitChars[d]

\* value of a run of digits; a Python int has no width, the values here
\* are those that fit the integers of the model checker
RECURSIVE DigitsVal(_)
DigitsVal(ds) ==
    IF ds = <<>> THEN 0
    ELSE 10 * DigitsVal(SubSeq(ds, 1, Len(ds) - 1)) + DigitVal(ds[Len(ds)])

\* a run of digits without its leading zeros
Significant(ds) ==
    LET nonzero == { i \in 1..Len(ds) : DigitVal(ds[i]) # 0 } IN
    IF nonzero = {} THEN <<>>
    ELSE SubSeq(ds, CHOOSE i \in nonzero : \A j \in nonzero : i <= j, Len(ds))

\* int() skips the whitespace around its argument, the ASCII separators
\* FS, GS, RS, US excepted
IntSpaces == Spaces \ {"", "", "", ""}

RECURSIVE IntStrip(_)
IntStrip(s) ==
    IF s # <<>> /\ Head(s) \in IntSpaces THEN IntStrip(Tail(s))
    ELSE IF s # <<>> /\ s[Len(s)] \in IntSpaces THEN IntStrip(SubSeq(s, 1, Len(s) - 1))
    ELSE s

\* the argument of int() without surrounding whitespace and sign
IntBody(s) ==
    LET t == IntStrip(s) IN
    IF t # <<>> /\ t[1] \in {"+", "-"} THEN Tail(t) ELSE t

\* int(s) succeeds: optional sign, then decimal digits, single underscores
\* allowed between two digits, and no more than INT_MAX_STR_DIGITS digits
\* (leading zeros count, sign and underscores do not)
IsInt(s) ==
    LET body == IntBody(s) IN
    /\ body # <<>>
    /\ Len(Remove(body, "_")) <= INT_MAX_STR_DIGITS
    /\ \A i \in 1..Len(body) : IsDigit(body[i]) \/ body[i] = "_"
    /\ IsDigit(body[1]) /\ IsDigit(body[Len(body)])
    /\ \A i \in 1..(Len(body) - 1) : ~(body[i] = "_" /\ body[i + 1] = "_")

\* int(s) when it succeeds
IntVal(s) ==
    LET t == IntStrip(s)
        magnitude == DigitsVal(Significant(Remove(IntBody(s), "_")))
    IN  IF t[1] = "-" THEN 0 - magnitude ELSE magnitude

\* ------------------------------------------------------------- literals
\* 'Unknown Manufacturer'
UNKNOWN ==
    <<"U","n","k","n","o","w","n"," ","M","a","n","u","f","a","c","t","u","r","e","r">>
\* 'N/A'
NA ==
    <<"N","/","A">>
\* 'SSID'
kwSSID ==
    <<"S","S","I","D">>
\* 'BSSID'
kwBSSID ==
    <<"B","S","S","I","D">>
\* 'Signal'
kwSignal ==
    <<"S","i","g","n","a","l">>
\* 'Channel'
kwChannel ==
    <<"C","h","a","n","n","e","l">>
\* '# Wireshark manuf'
oui_comment ==
    <<"#"," ","W","i","r","e","s","h","a","r","k"," ","m","a","n","u","f">>
\* 'AA:BB:CC Test Corp'
oui_two_field ==
    <<"A","A",":","B","B",":","C","C"," ","T","e","s","t"," ","C","o","r","p">>
\* '00:11:22 LabCo Lab Gear Inc'
oui_full ==
    <<"0","0",":","1","1",":","2","2"," ","L","a","b","C","o"," ","L","a","b"," ","G","e","a","r"," ","I","n","c">>
\* 'aa:bb:cc lc Lower Ltd'
oui_lower ==
    <<"a","a",":","b","b",":","c","c"," ","l","c"," ","L","o","w","e","r"," ","L","t","d">>
\* '44:55:66 Shorty'
oui_short ==
    <<"4","4",":","5","5",":","6","6"," ","S","h","o","r","t","y">>
\* 'SSID BSSID SIGNAL CHAN'
nmcli_header ==
    <<"S","S","I","D"," ","B","S","S","I","D"," ","S","I","G","N","A","L"," ","C","H","A","N">>
\* 'Home aa:bb:cc:11:22:33 80 6'
nm_home ==
    <<"H","o","m","e"," ","a","a",":","b","b",":","c","c",":","1","1",":","2","2",":","3","3"," ","8","0"," ","6">>
\* 'Cafe AA:BB:CC:44:55:66 80 11'
nm_cafe ==
    <<"C","a","f","e"," ","A","A",":","B","B",":","C","C",":","4","4",":","5","5",":","6","6"," ","8","0"," ","1","1">>
\* 'Lab 00:11:22:33:44:55 xx 1'
nm_lab_bad ==
    <<"L","a","b"," ","0","0",":","1","1",":","2","2",":","3","3",":","4","4",":","5","5"," ","x","x"," ","1">>
\* 'Far 00:11:22:33:44:55 150 1'
nm_far ==
    <<"F","a","r"," ","0","0",":","1","1",":","2","2",":","3","3",":","4","4",":","5","5"," ","1","5","0"," ","1">>
\* ' Bad aa:bb '
nm_short ==
    <<" ","B","a","d"," ","a","a",":","b","b"," ">>
\* 'Home aa:bb:cc:11:22:33 20 6'
nm_home_weak ==
    <<"H","o","m","e"," ","a","a",":","b","b",":","c","c",":","1","1",":","2","2",":","3","3"," ","2","0"," ","6">>
\* 'SSID BSSID RSSI CHANNEL'
airport_header ==
    <<"S","S","I","D"," ","B","S","S","I","D"," ","R","S","S","I"," ","C","H","A","N","N","E","L">>
\* 'Home aa:bb:cc:11:22:33 -60 6'
ap_home ==
    <<"H","o","m","e"," ","a","a",":","b","b",":","c","c",":","1","1",":","2","2",":","3","3"," ","-","6","0"," ","6">>
\* 'Cafe AA:BB:CC:44:55:66 40'
ap_cafe ==
    <<"C","a","f","e"," ","A","A",":","B","B",":","C","C",":","4","4",":","5","5",":","6","6"," ","4","0">>
\* 'Lab 00:11:22:33:44:55 xx 1'
ap_lab_bad ==
    <<"L","a","b"," ","0","0",":","1","1",":","2","2",":","3","3",":","4","4",":","5","5"," ","x","x"," ","1">>
\* 'Bad'
ap_short ==
    <<"B","a","d">>
\* 'SSID 1 : Home'
ns_ssid_home ==
    <<"S","S","I","D"," ","1"," ",":"," ","H","o","m","e">>
\* '    BSSID 1 : aa:bb:cc:11:22:33'
ns_bssid_home ==
    <<" "," "," "," ","B","S","S","I","D"," ","1"," ",":"," ","a","a",":","b","b",":","c","c",":","1","1",":","2","2",":","3","3">>
\* '    Signal : 80%'
ns_signal_80 ==
    <<" "," "," "," ","S","i","g","n","a","l"," ",":"," ","8","0","%">>
\* '    Channel : 6'
ns_channel_6 ==
    <<" "," "," "," ","C","h","a","n","n","e","l"," ",":"," ","6">>
\* 'SSID 2 : Cafe'
ns_ssid_cafe ==
    <<"S","S","I","D"," ","2"," ",":"," ","C","a","f","e">>
\* '    BSSID 1 : AA:BB:CC:44:55:66'
ns_bssid_cafe ==
    <<" "," "," "," ","B","S","S","I","D"," ","1"," ",":"," ","A","A",":","B","B",":","C","C",":","4","4",":","5","5",":","6","6">>
\* '    Signal : 40%'
ns_signal_40 ==
    <<" "," "," "," ","S","i","g","n","a","l"," ",":"," ","4","0","%">>
\* '    Channel : 11'
ns_channel_11 ==
    <<" "," "," "," ","C","h","a","n","n","e","l"," ",":"," ","1","1">>
\* '    Signal : xx%'
ns_signal_bad ==
    <<" "," "," "," ","S","i","g","n","a","l"," ",":"," ","x","x","%">>
\* '    Channel'
ns_channel_bare ==
    <<" "," "," "," ","C","h","a","n","n","e","l">>
\* 'aa:bb:cc:11:22:33'
mac_home ==
    <<"a","a",":","b","b",":","c","c",":","1","1",":","2","2",":","3","3">>
\* 'Test Corp'
txt_test_corp ==
    <<"T","e","s","t"," ","C","o","r","p">>
\* 'Corp'
txt_corp ==
    <<"C","o","r","p">>

\* ------------------------------------------------------------ OUI table
\* a seeded fault: the manufacturer name taken from the second field on
manufacturer_from_second(parts) == Strip(Join(SubSeq(parts, 2, Len(parts)), " "))

\* ' '.join(parts[2:]).strip(): the fields after prefix and short name
manufacturer_of(parts) == Strip(Join(SubSeq(parts, 3, Len(parts)), " "))

\* load_oui_database: one pass over the lines, later lines overwrite
\* earlier ones with the same first field
RECURSIVE load_lines(_, _)
load_lines(lines, oui) ==
    IF lines = <<>> THEN oui
    ELSE LET line  == Head(lines)
             parts == Split(line)
         IN  IF StartsWith(line, <<"#">>) \/ Strip(line) = <<>>
             THEN load_lines(Tail(lines), oui)
             ELSE IF Len(parts) >= 3
             THEN LET mac_prefix   == Strip(parts[1])
                      manufacturer == manufacturer_of(parts)
                  IN  load_lines(Tail(lines),
                                 [k \in DOMAIN oui \cup {mac_prefix} |->
                                     IF k = mac_prefix THEN manufacturer ELSE oui[k]])
             ELSE load_lines(Tail(lines), oui)

\* file = [readable, lines, read_error].  open() fails on a file that is not
\* readable and the table stays empty.  lines are the lines the iteration
\* over the file yields; with read_error it then raises (a byte that does
\* not decode, an I/O error) and the except clause returns the table built
\* from the lines read so far.
load_oui_database(file) ==
    IF file.readable THEN load_lines(file.lines, <<>>) ELSE <<>>

\* what load_oui_database prints
load_message(file) ==
    IF file.readable /\ ~file.read_error
    THEN "Loaded entries from OUI database."
    ELSE "Error loading OUI database"

\* a seeded fault: the lookup without upper()
get_manufacturer_as_written(mac, oui) ==
    LET groups     == SplitOn(mac, ":")
        first3     == SubSeq(groups, 1, IF Len(groups) < 3 THEN Len(groups) ELSE 3)
        mac_prefix == Join(first3, ":")
    IN  IF mac_prefix \in DOMAIN oui THEN oui[mac_prefix] ELSE UNKNOWN

get_manufacturer(mac, oui) ==
    LET groups     == SplitOn(mac, ":")
        first3     == SubSeq(groups, 1, IF Len(groups) < 3 THEN Len(groups) ELSE 3)
        mac_prefix == Upper(Join(first3, ":"))
    IN  IF mac_prefix \in DOMAIN oui THEN oui[mac_prefix] ELSE UNKNOWN

\* ------------------------------------------------------------- colouring
get_color_for_signal(signal) ==
    IF signal > 70 THEN "GREEN"
    ELSE IF signal > 50 THEN "YELLOW"
    ELSE IF signal > 30 THEN "LIGHTYELLOW_EX"
    ELSE "RED"

\* one glyph: a coloured full block, or an uncoloured blank
get_colored_block(signal) ==
    IF signal > 0
    THEN [color |-> get_color_for_signal(signal), glyph |-> "FULL_BLOCK"]
    ELSE [color |-> "", glyph |-> " "]

generate_signal_graph(rssi_values) ==
    IF rssi_values = <<>>
    THEN [i \in 1..MAX_HISTORY |-> [color |-> "", glyph |-> " "]]
    ELSE [i \in 1..Len(rssi_values) |-> get_colored_block(rssi_values[i])]

\* --------------------------------------------------------------- sorting
\* sorted(networks, key=SIGNAL, reverse=True) is stable: an element goes
\* behind every element whose signal is greater or equal
RECURSIVE insert_desc(_, _)
insert_desc(sorted, x) ==
    IF sorted = <<>> THEN <<x>>
    ELSE IF int_value(Head(sorted).SIGNAL) >= int_value(x.SIGNAL)
         THEN <<Head(sorted)>> \o insert_desc(Tail(sorted), x)
         ELSE <<x>> \o sorted

RECURSIVE sorted_desc(_)
sorted_desc(networks) ==
    IF networks = <<>> THEN <<>>
    ELSE insert_desc(sorted_desc(SubSeq(networks, 1, Len(networks) - 1)),
                     networks[Len(networks)])

\* comparing a None key raises TypeError as soon as two elements are compared
sort_raises(networks) ==
    Len(networks) >= 2 /\ \E i \in 1..Len(networks) : networks[i].SIGNAL = NoneSig

\* the tail of every scanner: sort and return, or land in the except clause
sort_and_return(networks) ==
    IF sort_raises(networks)
    THEN [raised |-> TRUE, networks |-> <<>>]
    ELSE [raised |-> FALSE, networks |-> sorted_desc(networks)]

\* -------------------------------------------------------------- scanners
\* records appended by the Linux loop over output[1:]
RECURSIVE parse_linux(_)
parse_linux(lines) ==
    IF lines = <<>> THEN <<>>
    ELSE LET line  == lines[Len(lines)]
             parts == Split(line)
             before == parse_linux(SubSeq(lines, 1, Len(lines) - 1))
         IN  IF Strip(line) # <<>> /\ Len(parts) >= 4
             THEN Append(before,
                         [SSID    |-> parts[1],
                          BSSID   |-> parts[2],
                          SIGNAL  |-> int_object(IF IsInt(parts[3]) THEN IntVal(parts[3])
                                                 ELSE 0),
                          CHANNEL |-> parts[4]])
             ELSE before

\* the macOS loop over output[1:]; raised when a line has fewer than three
\* fields (IndexError) or a third field int() rejects (ValueError)
RECURSIVE parse_macos(_, _)
parse_macos(lines, networks) ==
    IF lines = <<>> THEN [raised |-> FALSE, networks |-> networks]
    ELSE LET line  == Head(lines)
             parts == Split(line)
         IN  IF Strip(line) = <<>> THEN parse_macos(Tail(lines), networks)
             ELSE IF Len(parts) < 3 \/ ~IsInt(parts[3])
             THEN [raised |-> TRUE, networks |-> networks]
             ELSE parse_macos(Tail(lines),
                      Append(networks,
                             [SSID    |-> parts[1],
                              BSSID   |-> parts[2],
                              SIGNAL  |-> int_object(IntVal(parts[3])),
                              CHANNEL |-> IF Len(parts) > 3 THEN parts[4] ELSE NA]))

\* the Windows loop over output; acc holds ssid, bssid, signal, channel and
\* the records appended so far.  raised when a keyed line has no colon
\* (IndexError) or the Signal value is rejected by int() (ValueError)
RECURSIVE parse_windows(_, _)
parse_windows(lines, acc) ==
    IF lines = <<>> THEN [raised |-> FALSE, networks |-> acc.networks]
    ELSE LET line   == Strip(Head(lines))
             pieces == SplitOn(line, ":")
             keyed  == \/ StartsWith(line, kwSSID)  \/ StartsWith(line, kwBSSID)
                       \/ StartsWith(line, kwSignal) \/ StartsWith(line, kwChannel)
             value  == Strip(pieces[2])
         IN  IF ~keyed THEN parse_windows(Tail(lines), acc)
             ELSE IF Len(pieces) < 2 THEN [raised |-> TRUE, networks |-> acc.networks]
             ELSE IF StartsWith(line, kwSSID)
             THEN parse_windows(Tail(lines), [acc EXCEPT !.ssid = value])
             ELSE IF StartsWith(line, kwBSSID)
             THEN parse_windows(Tail(lines), [acc EXCEPT !.bssid = value])
             ELSE IF StartsWith(line, kwSignal)
             THEN IF IsInt(Remove(value, "%"))
                  THEN parse_windows(Tail(lines),
                                     [acc EXCEPT !.signal =
                                          int_object(IntVal(Remove(value, "%")))])
                  ELSE [raised |-> TRUE, networks |-> acc.networks]
             ELSE parse_windows(Tail(lines),
                      [acc EXCEPT !.channel = value,
                                  !.networks = Append(acc.networks,
                                      [SSID    |-> acc.ssid,
                                       BSSID   |-> acc.bssid,
                                       SIGNAL  |-> acc.signal,
                                       CHANNEL |-> value])])

\* output[1:]
Rest(output) == IF output = <<>> THEN <<>> ELSE Tail(output)

\* A scan result is what subprocess.run gives the scanner:
\* [spawn_error, returncode, stdout], stdout being the list of lines.
\* a seeded fault: the Linux scanner without the returncode test
list_and_sort_wifi_networks_linux_any_exit(result) ==
    IF result.spawn_error THEN [raised |-> TRUE, networks |-> <<>>]
    ELSE sort_and_return(parse_linux(Rest(result.stdout)))

list_and_sort_wifi_networks_linux(result) ==
    IF result.spawn_error THEN [raised |-> TRUE, networks |-> <<>>]
    ELSE IF result.returncode # 0 THEN [raised |-> FALSE, networks |-> <<>>]
    ELSE sort_and_return(parse_linux(Rest(result.stdout)))

list_and_sort_wifi_networks_macos(result) ==
    IF result.spawn_error THEN [raised |-> TRUE, networks |-> <<>>]
    ELSE IF result.returncode # 0 THEN [raised |-> FALSE, networks |-> <<>>]
    ELSE LET parsed == parse_macos(Rest(result.stdout), <<>>) IN
         IF parsed.raised THEN [raised |-> TRUE, networks |-> <<>>]
         ELSE sort_and_return(parsed.networks)

list_and_sort_wifi_networks_windows(result) ==
    IF result.spawn_error THEN [raised |-> TRUE, networks |-> <<>>]
    ELSE IF result.returncode # 0 THEN [raised |-> FALSE, networks |-> <<>>]
    ELSE LET parsed == parse_windows(result.stdout,
                           [ssid |-> NoneStr, bssid |-> NoneStr, signal |-> NoneSig,
                            channel |-> NoneStr, networks |-> <<>>]) IN
         IF parsed.raised THEN [raised |-> TRUE, networks |-> <<>>]
         ELSE sort_and_return(parsed.networks)

\* dispatch on platform.system(); message is what the scanner printed
list_and_sort_wifi_networks(system, result) ==
    LET r == IF system = "Linux" THEN list_and_sort_wifi_networks_linux(result)
             ELSE IF system = "Darwin" THEN list_and_sort_wifi_networks_macos(result)
             ELSE list_and_sort_wifi_networks_windows(result)
    IN  IF system \in {"Linux", "Darwin", "Windows"}
        THEN [networks |-> r.networks,
              message  |-> IF r.raised THEN "An error occurred" ELSE ""]
        ELSE [networks |-> <<>>, message |-> "Unsupported operating system."]

\* ------------------------------------------------------- history tracker
\* a seeded fault: a full deque refuses the new sample
deque_append_keep_oldest(values, signal) ==
    IF Len(values) >= MAX_HISTORY THEN values ELSE Append(values, signal)

\* deque(maxlen=MAX_HISTORY).append(signal)
deque_append(values, signal) ==
    LET appended == Append(values, signal) IN
    IF Len(appended) > MAX_HISTORY THEN Tail(appended) ELSE appended

\* rssi_history[bssid].append(signal) on the defaultdict
history_append(history, bssid, signal) ==
    [k \in DOMAIN history \cup {bssid} |->
        IF k = bssid
        THEN deque_append(IF bssid \in DOMAIN history THEN history[bssid] ELSE <<>>,
                          signal)
        ELSE history[k]]

\* the loop of display_wifi_networks over the returned records, from row
\* index on.  A record whose BSSID is None stops it in get_manufacturer
\* (AttributeError) and one whose SIGNAL is None in get_color_for_signal
\* (TypeError); neither is caught short of the interpreter.
RECURSIVE build_rows(_, _, _, _, _)
build_rows(nets, index, oui, history, rows) ==
    IF index > Len(nets)
    THEN [raised |-> FALSE, history |-> history, rows |-> rows]
    ELSE LET network == nets[index] IN
         IF network.BSSID = NoneStr \/ network.SIGNAL = NoneSig
         THEN [raised |-> TRUE, history |-> history, rows |-> rows]
         ELSE LET signal  == int_value(network.SIGNAL)
                  updated == history_append(history, network.BSSID, signal)
                  row == [No           |-> index,
                          SSID         |-> network.SSID,
                          BSSID        |-> network.BSSID,
                          Signal       |-> [color |-> get_color_for_signal(signal),
                                            value |-> signal],
                          Channel      |-> network.CHANNEL,
                          Manufacturer |-> get_manufacturer(network.BSSID, oui),
                          History      |-> generate_signal_graph(updated[network.BSSID])]
              IN  build_rows(nets, index + 1, oui, updated, Append(rows, row))

\* every record the scans have returned, per hardware address, in order
RECURSIVE log_records(_, _)
log_records(log, nets) ==
    IF nets = <<>> THEN log
    ELSE LET b == Head(nets).BSSID IN
         log_records([k \in DOMAIN log \cup {b} |->
                         IF k = b
                         THEN Append(IF b \in DOMAIN log THEN log[b] ELSE <<>>,
                                     Head(nets).SIGNAL)
                         ELSE log[k]],
                     Tail(nets))

\* ----------------------------------------------------------------- inputs
Systems == {"Linux", "Darwin", "Windows", "Java"}

\* manuf is missing; holds the one entry line "AA:BB:CC Test Corp"; holds
\* three-field entries, one of them with a lower-case prefix; cannot be
\* read beyond its first entry
OuiMissing == [readable |-> FALSE, read_error |-> FALSE, lines |-> <<>>]
OuiTwoField ==
    [readable |-> TRUE, read_error |-> FALSE,
     lines |-> <<oui_comment, <<>>, oui_two_field>>]
OuiMixedCase ==
    [readable |-> TRUE, read_error |-> FALSE,
     lines |-> <<oui_full, oui_short, oui_lower>>]
OuiCutShort == [readable |-> TRUE, read_error |-> TRUE, lines |-> <<oui_full>>]

OuiFiles == {OuiMissing, OuiTwoField, OuiMixedCase, OuiCutShort}

\* what the scan utility prints after its header
ScanOutputs(system) ==
    IF system = "Linux"
    THEN { <<>>,
           <<nm_home>>,
           <<nm_home, nm_cafe>>,
           <<nm_cafe, nm_home>>,
           <<nm_lab_bad, nm_home>>,
           <<nm_short, nm_far>>,
           <<nm_home_weak, nm_far, nm_cafe>> }
    ELSE IF system = "Darwin"
    THEN { <<>>,
           <<ap_home>>,
           <<ap_cafe>>,
           <<ap_cafe, ap_home>>,
           <<ap_home, ap_lab_bad>>,
           <<ap_lab_bad>>,
           <<ap_short>> }
    ELSE IF system = "Windows"
    THEN { <<>>,
           <<ns_ssid_home, ns_bssid_home, ns_signal_80, ns_channel_6>>,
           <<ns_ssid_home, ns_bssid_home, ns_signal_80, ns_channel_6,
             ns_ssid_cafe, ns_bssid_cafe, ns_channel_11>>,
           <<ns_ssid_home, ns_bssid_home, ns_signal_80, ns_channel_6,
             ns_signal_40, ns_channel_11>>,
           <<ns_ssid_cafe, ns_bssid_cafe, ns_channel_11>>,
           <<ns_signal_40, ns_channel_6>>,
           <<ns_signal_40, ns_channel_6,
             ns_ssid_home, ns_bssid_home, ns_signal_80, ns_channel_6>>,
           <<ns_ssid_cafe, ns_bssid_cafe, ns_channel_11,
             ns_signal_40, ns_channel_6>>,
           <<ns_ssid_home, ns_bssid_home, ns_signal_bad, ns_channel_6>>,
           <<ns_channel_bare>> }
    ELSE {}

Header(system) ==
    IF system = "Linux" THEN <<nmcli_header>>
    ELSE IF system = "Darwin" THEN <<airport_header>>
    ELSE <<>>

\* subprocess.run raised (utility not installed)
SpawnError == [spawn_error |-> TRUE,  returncode |-> 0, stdout |-> <<>>]
\* the utility exited non-zero, silently or after printing part of a scan
NonZeroExit == [spawn_error |-> FALSE, returncode |-> 1, stdout |-> <<>>]
NonZeroExitWithOutput(system) ==
    [spawn_error |-> FALSE, returncode |-> 1,
     stdout |-> Header(system)
                \o (IF system = "Linux" THEN <<nm_home>>
                    ELSE IF system = "Darwin" THEN <<ap_home>>
                    ELSE <<ns_ssid_home, ns_bssid_home, ns_signal_80, ns_channel_6>>)]
\* no utility is run on an unsupported host
NoScan == [spawn_error |-> FALSE, returncode |-> 0, stdout |-> <<>>]

ScanResults(system) ==
    IF system \in {"Linux", "Darwin", "Windows"}
    THEN {SpawnError, NonZeroExit, NonZeroExitWithOutput(system)}
         \cup { [spawn_error |-> FALSE, returncode |-> 0, stdout |-> Header(system) \o o] :
                    o \in ScanOutputs(system) }
    ELSE {NoScan}

\* scans of SpecHistory: one or two access points with changing signal
HistoryScans ==
    { [spawn_error |-> FALSE, returncode |-> 0, stdout |-> <<nmcli_header>> \o o] :
          o \in { <<nm_home>>, <<nm_cafe, nm_home_weak>> } }

ScanFailed(result) == result.spawn_error \/ result.returncode # 0

\* ------------------------------------------------------------------ state
VARIABLES
    platform,      \* platform.system()
    oui_file,      \* the file OUI_FILE names, as found at startup
    oui_dict,      \* module-level oui_dict
    rssi_history,  \* module-level rssi_history
    scan,          \* result of the last subprocess.run
    networks,      \* list the scanner returned in the last cycle
    table_data,    \* rows of the last table printed
    console,       \* last diagnostic printed
    pc,            \* "loading", "running", "exited" (interrupt caught) or
                   \* "crashed" (traceback)
    cycles,        \* calls of display_wifi_networks so far
    returned       \* per address, the signals of all records scans returned

vars == <<platform, oui_file, oui_dict, rssi_history, scan, networks,
          table_data, console, pc, cycles, returned>>

\* the interpreter has started the script; line 195 has not returned yet
\* and oui_dict is not bound (shown as the empty table)
Startup(systems, files) ==
    /\ platform \in systems
    /\ oui_file \in files
    /\ oui_dict = <<>>
    /\ rssi_history = <<>>
    /\ scan = NoScan
    /\ networks = <<>>
    /\ table_data = <<>>
    /\ console = ""
    /\ pc = "loading"
    /\ cycles = 0
    /\ returned = <<>>

Init == Startup(Systems, OuiFiles)

\* line 195: the table is loaded and the loop is entered
LoadOui ==
    /\ pc = "loading"
    /\ oui_dict' = load_oui_database(oui_file)
    /\ console' = load_message(oui_file)
    /\ pc' = "running"
    /\ UNCHANGED <<platform, oui_file, rssi_history, scan, networks, table_data,
                   cycles, returned>>

\* Ctrl-C before the try of the main loop is entered, while the file is
\* read: load_oui_database catches Exception only and nothing else catches
\* the KeyboardInterrupt, so the program ends with a traceback
StartupInterrupt ==
    /\ pc = "loading"
    /\ pc' = "crashed"
    /\ console' = "Traceback"
    /\ UNCHANGED <<platform, oui_file, oui_dict, rssi_history, scan, networks,
                   table_data, cycles, returned>>

\* one pass of the while loop: display_wifi_networks, then the sleep
display_wifi_networks(result) ==
    LET got   == list_and_sort_wifi_networks(platform, result)
        built == build_rows(got.networks, 1, oui_dict, rssi_history, <<>>)
    IN  /\ pc = "running"
        /\ scan' = result
        /\ networks' = got.networks
        /\ rssi_history' = built.history
        /\ returned' = log_records(returned, got.networks)
        /\ cycles' = cycles + 1
        /\ IF built.raised
           THEN /\ pc' = "crashed"
                /\ console' = "Traceback"
                /\ table_data' = table_data
           ELSE /\ pc' = "running"
                /\ console' = got.message
                /\ table_data' = built.rows
        /\ UNCHANGED <<platform, oui_file, oui_dict>>

\* Ctrl-C while the loop sleeps, or while subprocess.run waits for the
\* utility: no scanner catches KeyboardInterrupt, nothing of the cycle has
\* taken effect
KeyboardInterrupt ==
    /\ pc = "running"
    /\ pc' = "exited"
    /\ console' = "Exiting..."
    /\ UNCHANGED <<platform, oui_file, oui_dict, rssi_history, scan, networks,
                   table_data, cycles, returned>>

\* Ctrl-C inside display_wifi_networks after the scanner has returned: the
\* first done records have their sample in rssi_history, the table of the
\* cycle is not printed, and the except clause of the main loop ends the
\* program
display_interrupted(result, done) ==
    LET got   == list_and_sort_wifi_networks(platform, result)
        built == build_rows(SubSeq(got.networks, 1, done), 1, oui_dict,
                            rssi_history, <<>>)
    IN  /\ pc = "running"
        /\ done \in 0..Len(got.networks)
        /\ ~built.raised
        /\ scan' = result
        /\ networks' = got.networks
        /\ rssi_history' = built.history
        /\ returned' = log_records(returned, got.networks)
        /\ cycles' = cycles + 1
        /\ pc' = "exited"
        /\ console' = "Exiting..."
        /\ UNCHANGED <<platform, oui_file, oui_dict, table_data>>

Refresh ==
    /\ cycles < MaxCycles
    /\ \E result \in ScanResults(platform) : display_wifi_networks(result)

InterruptedRefresh ==
    /\ cycles < MaxCycles
    /\ \E result \in ScanResults(platform) :
          \E done \in 0..Len(list_and_sort_wifi_networks(platform, result).networks) :
              display_interrupted(result, done)

Next ==
    LoadOui \/ StartupInterrupt \/ Refresh \/ InterruptedRefresh \/ KeyboardInterrupt

Spec == Init /\ [][Next]_vars

\* the history tracker over many cycles of one Linux host
InitHistory == Startup({"Linux"}, {OuiTwoField})

RefreshHistory ==
    /\ cycles < MaxHistoryCycles
    /\ \E result \in HistoryScans : display_wifi_networks(result)

InterruptedRefreshHistory ==
    /\ cycles < MaxHistoryCycles
    /\ \E result \in HistoryScans :
          \E done \in 0..Len(list_and_sort_wifi_networks(platform, result).networks) :
              display_interrupted(result, done)

NextHistory ==
    \/ LoadOui \/ StartupInterrupt
    \/ RefreshHistory \/ InterruptedRefreshHistory \/ KeyboardInterrupt

SpecHistory == InitHistory /\ [][NextHistory]_vars

\* ------------------------------------------------------------- properties
Supported == {"Linux", "Darwin", "Windows"}

\* the utility ran, exited with status 0 and its output was taken up
ScanCompleted == cycles > 0 /\ platform \in Supported /\ ~ScanFailed(scan)

\* the last n elements of s
LastN(s, n) == IF Len(s) <= n THEN s ELSE SubSeq(s, Len(s) - n + 1, Len(s))

\* C1: after any sequence of refresh cycles (the loop is between two
\* cycles), for every hardware address the stored history is at most
\* MAX_HISTORY long and equals, in arrival order, the last
\* min(k, MAX_HISTORY) signals of the k records scans have returned for that
\* address; what is stored for one address depends on that address's
\* records only.
HistoryIsLastN ==
    pc = "running" =>
        /\ DOMAIN rssi_history = DOMAIN returned
        /\ \A b \in DOMAIN returned :
              /\ Len(rssi_history[b]) <= MAX_HISTORY
              /\ [i \in 1..Len(rssi_history[b]) |-> int_object(rssi_history[b][i])]
                    = LastN(returned[b], MAX_HISTORY)

\* an address with more than MAX_HISTORY records, the evicted sample unlike
\* the newest one, next to a second address with a history of its own
HistoryEvicted ==
    /\ pc = "running"
    /\ Cardinality(DOMAIN rssi_history) = 2
    /\ \E b \in DOMAIN returned :
          /\ Len(returned[b]) > MAX_HISTORY
          /\ returned[b][1] # returned[b][Len(returned[b])]
          /\ Len(rssi_history[b]) = MAX_HISTORY

\* C2: every sparkline of the printed table is exactly MAX_HISTORY glyphs
\* wide.
SparklineWidthIsN ==
    \A i \in 1..Len(table_data) : Len(table_data[i].History) = MAX_HISTORY

\* C3 as stated: with "AA:BB:CC Test Corp" the only entry line of the OUI
\* file, a record with address aa:bb:cc:11:22:33 is shown with manufacturer
\* "Test Corp".
TwoFieldLineYieldsTestCorp ==
    \A i \in 1..Len(table_data) :
        (oui_file = OuiTwoField /\ table_data[i].BSSID = mac_home)
            => table_data[i].Manufacturer = txt_test_corp

\* C3 amended: with that file the record is shown with manufacturer "Corp",
\* the second field of the line being the short name the loader drops.
TwoFieldLineYieldsCorp ==
    \A i \in 1..Len(table_data) :
        (oui_file = OuiTwoField /\ table_data[i].BSSID = mac_home)
            => table_data[i].Manufacturer = txt_corp

TwoFieldLineLookedUp ==
    \E i \in 1..Len(table_data) :
        /\ oui_file = OuiTwoField
        /\ table_data[i].BSSID = mac_home
        /\ table_data[i].Manufacturer # UNKNOWN

\* the first three colon-separated groups of an address, as text
Prefix3(mac) ==
    LET groups == SplitOn(mac, ":") IN
    Join(SubSeq(groups, 1, IF Len(groups) < 3 THEN Len(groups) ELSE 3), ":")

EqualIgnoreCase(a, b) ==
    Len(a) = Len(b) /\ \A i \in 1..Len(a) : UpperChar(a[i]) = UpperChar(b[i])

\* C4 as stated: a row shows a manufacturer the table stores under a prefix
\* equal, case-insensitively, to the first three groups of the row's
\* address when there is such a prefix, and "Unknown Manufacturer" when
\* there is none.
LookupIgnoresCase ==
    \A i \in 1..Len(table_data) :
        LET hits == { k \in DOMAIN oui_dict :
                         EqualIgnoreCase(k, Prefix3(table_data[i].BSSID)) }
        IN  IF hits = {}
            THEN table_data[i].Manufacturer = UNKNOWN
            ELSE \E k \in hits : table_data[i].Manufacturer = oui_dict[k]

\* C4 amended: case is ignored in the address only.  A row shows the
\* manufacturer stored under the table key that is spelled in upper case
\* and equals, case-insensitively, the first three groups of the row's
\* address, and "Unknown Manufacturer" when the table has no such key.
LookupUppercasesAddress ==
    \A i \in 1..Len(table_data) :
        LET hits == { k \in DOMAIN oui_dict :
                         /\ k = Upper(k)
                         /\ EqualIgnoreCase(k, Prefix3(table_data[i].BSSID)) }
        IN  IF hits = {}
            THEN table_data[i].Manufacturer = UNKNOWN
            ELSE \A k \in hits : table_data[i].Manufacturer = oui_dict[k]

\* a lower-case address found under an upper-case key, beside an address
\* the loaded table does not know
LookupHitAndMiss ==
    /\ DOMAIN oui_dict # {}
    /\ \E i \in 1..Len(table_data) :
          /\ table_data[i].BSSID # Upper(table_data[i].BSSID)
          /\ table_data[i].Manufacturer # UNKNOWN
    /\ \E i \in 1..Len(table_data) : table_data[i].Manufacturer = UNKNOWN

\* lines of scan output whose signal field is not an integer, and the
\* well-formed lines for the access point Home
BadSignalLines == {nm_lab_bad, ap_lab_bad, ns_signal_bad}
HomeLines == {nm_home, ap_home}

\* C5: on every platform, a completed scan whose output has a line with a
\* non-integer signal field returns a record with signal 0, and still
\* returns the record of a well-formed line of the same output.
NonIntegerSignalYieldsZero ==
    (ScanCompleted /\ \E i \in 1..Len(scan.stdout) : scan.stdout[i] \in BadSignalLines)
        => /\ \E j \in 1..Len(networks) : networks[j].SIGNAL = int_object(0)
           /\ (\E i \in 1..Len(scan.stdout) : scan.stdout[i] \in HomeLines)
                 => \E j \in 1..Len(networks) : networks[j].BSSID = mac_home

\* C6: once the refresh loop has begun a cycle, whatever the scan utility
\* prints, the cycle completes and the loop goes on; the program stops on
\* the interrupt only.
OnlyInterruptStops == cycles > 0 => pc \in {"running", "exited"}

\* C7: a cycle whose scan command fails (spawn error or non-zero exit), or
\* that runs on an unsupported host, gets the empty list and leaves every
\* signal history as it was; unless Ctrl-C cuts the cycle short, it prints
\* a table of zero rows and leaves the loop running.
FailedScanShowsNothing ==
    [][ (cycles' = cycles + 1 /\ (ScanFailed(scan') \/ platform \notin Supported))
            => /\ networks' = <<>>
               /\ rssi_history' = rssi_history
               /\ pc' \in {"running", "exited"}
               /\ pc' = "running" => table_data' = <<>> ]_vars

\* a failed scan after cycles that filled the history
FailedScanAfterHistory ==
    /\ ScanFailed(scan)
    /\ scan.stdout # <<>>
    /\ DOMAIN rssi_history # {}
    /\ table_data = <<>>
    /\ pc = "running"

\* the records the scanner's loop appended before the sort; none when the
\* loop raised
Parsed ==
    IF platform = "Linux" THEN parse_linux(Rest(scan.stdout))
    ELSE LET p == IF platform = "Darwin"
                  THEN parse_macos(Rest(scan.stdout), <<>>)
                  ELSE parse_windows(scan.stdout,
                           [ssid |-> NoneStr, bssid |-> NoneStr, signal |-> NoneSig,
                            channel |-> NoneStr, networks |-> <<>>])
         IN  IF p.raised THEN <<>> ELSE p.networks

\* C8: the list a completed scan returns is a permutation of the parsed
\* records in descending order of signal, records of equal signal in the
\* order of the scan output; the table numbers its rows 1..n in that order.
ReturnedIsStableSort ==
    ScanCompleted =>
        /\ Len(networks) = Len(Parsed)
        /\ \A i \in 1..(Len(networks) - 1) :
              /\ networks[i].SIGNAL # NoneSig
              /\ networks[i + 1].SIGNAL # NoneSig
              /\ int_value(networks[i].SIGNAL) >= int_value(networks[i + 1].SIGNAL)
        /\ \A i \in 1..Len(Parsed) :
              SelectSeq(networks, LAMBDA r : r.SIGNAL = Parsed[i].SIGNAL)
                  = SelectSeq(Parsed, LAMBDA r : r.SIGNAL = Parsed[i].SIGNAL)
        /\ (pc = "running" =>
              /\ Len(table_data) = Len(networks)
              /\ \A i \in 1..Len(table_data) :
                    /\ table_data[i].No = i
                    /\ table_data[i].BSSID = networks[i].BSSID)

\* C9: every returned record and every stored sample has a signal in 0..100.
SignalsArePercentages ==
    /\ \A i \in 1..Len(networks) :
          \E n \in 0..100 : networks[i].SIGNAL = int_object(n)
    /\ \A b \in DOMAIN rssi_history :
          \A i \in 1..Len(rssi_history[b]) : rssi_history[b][i] \in 0..100

\* the text after the first colon of a line, stripped
AfterColon(line) == Strip(SubSeq(line, IndexOf(line, ":") + 1, Len(line)))

IsChannelLine(line) == StartsWith(Strip(line), kwChannel)

\* the last line of a block with the given key, <<>> when it has none
LastKeyed(block, key) ==
    LET hits == { i \in 1..Len(block) :
                     /\ StartsWith(Strip(block[i]), key)
                     /\ (key = kwSSID \/ ~StartsWith(Strip(block[i]), kwSSID)) }
    IN  IF hits = {} THEN <<>>
        ELSE block[CHOOSE i \in hits : \A j \in hits : j <= i]

\* the record a block of netsh output describes by itself
BlockRecord(block) ==
    [SSID    |-> IF LastKeyed(block, kwSSID) = <<>> THEN NoneStr
                 ELSE AfterColon(LastKeyed(block, kwSSID)),
     BSSID   |-> IF LastKeyed(block, kwBSSID) = <<>> THEN NoneStr
                 ELSE AfterColon(LastKeyed(block, kwBSSID)),
     SIGNAL  |-> IF LastKeyed(block, kwSignal) = <<>> THEN NoneSig
                 ELSE int_object(IntVal(Remove(AfterColon(LastKeyed(block, kwSignal)),
                                               "%"))),
     CHANNEL |-> AfterColon(block[Len(block)])]

\* the blocks of an output: each ends with a Channel line
RECURSIVE Blocks(_, _)
Blocks(lines, open) ==
    IF lines = <<>> THEN {}
    ELSE IF IsChannelLine(Head(lines))
         THEN {Append(open, Head(lines))} \cup Blocks(Tail(lines), <<>>)
         ELSE Blocks(Tail(lines), Append(open, Head(lines)))

\* C10: the Windows scanner returns one record per Channel line, and each
\* record carries the SSID, the full hardware address, the signal and the
\* channel of the block its Channel line completes.
WindowsRecordsMatchBlocks ==
    (ScanCompleted /\ platform = "Windows" /\ console # "An error occurred"
                   /\ pc = "running")
        => /\ Len(networks)
                = Cardinality({ i \in 1..Len(scan.stdout) : IsChannelLine(scan.stdout[i]) })
           /\ \A i \in 1..Len(networks) :
                 \E b \in Blocks(scan.stdout, <<>>) : networks[i] = BlockRecord(b)

====
